---- MODULE Spec2Model ----
(***************************************************************************)
(* The 3-qubit bit-flip code demonstration of 3-qubit-code.py.             *)
(*                                                                         *)
(* A circuit is a list of instructions over the five qubits                *)
(*   1 = q, 2 = d[0], 3 = d[1], 4 = a[0], 5 = a[1]                         *)
(* (the order QuantumCircuit(q, d, a) registers them) and over its         *)
(* classical bits 1..ncl.  A bit-string is a sequence of 0/1, leftmost     *)
(* character first.  A histogram (Counts, dict) is a sequence of           *)
(* [key, count] entries with pairwise distinct keys, in insertion order.   *)
(***************************************************************************)
EXTENDS Naturals, Sequences, FiniteSets

VARIABLES cell, tag, measure_all, pc, qc, counts, rcounts, syndrome

vars == <<cell, tag, measure_all, pc, qc, counts, rcounts, syndrome>>

(* ------------------------------------------------------------------ *)
(* Bounds of the histograms fed to counts_bit_reversed on its own.     *)
MaxKeys == 2
MaxCount == 2
KeyLen == 2

(* ------------------------------------------------------------------ *)
(* Program constants.                                                  *)

\* class ErrorSims(Enum)
ErrorSims == {"NoError", "XError1", "XError2", "XError3", "XError12", "XError13",
              "XError23", "ZError1", "ZError2", "YError1", "YError2"}

\* Any value that is no member of ErrorSims (None, an int, a str): no case
\* pattern of the match statement compares equal to it.
OtherTags == {"Other"}

\* shots=1024
SHOTS == 1024

\* The qubits of QuantumCircuit(q, d, a).
Q == 1
D0 == 2
D1 == 3
A0 == 4
A1 == 5
NumQubits == 5

\* The calls of the notebook cells, in order: qcirc(tag) or qcirc(tag, True).
Script ==
    << [tag |-> "NoError",  measure_all |-> FALSE],
       [tag |-> "XError1",  measure_all |-> FALSE],
       [tag |-> "XError2",  measure_all |-> FALSE],
       [tag |-> "XError3",  measure_all |-> FALSE],
       [tag |-> "XError12", measure_all |-> FALSE],
       [tag |-> "XError13", measure_all |-> FALSE],
       [tag |-> "XError23", measure_all |-> FALSE],
       [tag |-> "ZError1",  measure_all |-> TRUE],
       [tag |-> "ZError2",  measure_all |-> TRUE],
       [tag |-> "YError1",  measure_all |-> TRUE],
       [tag |-> "YError2",  measure_all |-> TRUE] >>

(* ------------------------------------------------------------------ *)
(* Instructions.                                                       *)

Gate(name, qubits) == [name |-> name, q |-> qubits, c |-> <<>>]
Barrier == [name |-> "barrier", q |-> <<Q, D0, D1, A0, A1>>, c |-> <<>>]
Measure(qubit, clbit) == [name |-> "measure", q |-> <<qubit>>, c |-> <<clbit>>]

\* The circuit with ClassicalRegister(3, 'c') written for ClassicalRegister(2, 'c').
NewCircuitWideRegister(all) == [ncl |-> IF all THEN 0 ELSE 3, ops |-> <<>>]

\* if not measure_all: c = ClassicalRegister(2, 'c'); qc = QuantumCircuit(q, d, a, c)
\* else: qc = QuantumCircuit(q, d, a)
NewCircuit(all) == [ncl |-> IF all THEN 0 ELSE 2, ops |-> <<>>]

AppendOps(c, ops) == [c EXCEPT !.ops = c.ops \o ops]

\* The body the match statement runs for tag i; no case, no body.
ErrorGates(i) ==
    CASE i = "NoError"  -> <<Gate("id", <<Q>>), Gate("id", <<D0>>), Gate("id", <<D1>>)>>
      [] i = "XError1"  -> <<Gate("x", <<Q>>),  Gate("id", <<D0>>), Gate("id", <<D1>>)>>
      [] i = "XError2"  -> <<Gate("id", <<Q>>), Gate("x", <<D0>>),  Gate("id", <<D1>>)>>
      [] i = "XError3"  -> <<Gate("id", <<Q>>), Gate("id", <<D0>>), Gate("x", <<D1>>)>>
      [] i = "XError12" -> <<Gate("x", <<Q>>),  Gate("x", <<D0>>),  Gate("id", <<D1>>)>>
      [] i = "XError13" -> <<Gate("x", <<Q>>),  Gate("id", <<D0>>), Gate("x", <<D1>>)>>
      [] i = "XError23" -> <<Gate("id", <<Q>>), Gate("x", <<D0>>),  Gate("x", <<D1>>)>>
      [] i = "ZError1"  -> <<Gate("z", <<Q>>),  Gate("id", <<D0>>), Gate("id", <<D1>>)>>
      [] i = "ZError2"  -> <<Gate("id", <<Q>>), Gate("z", <<D0>>),  Gate("id", <<D1>>)>>
      [] i = "YError1"  -> <<Gate("y", <<Q>>),  Gate("id", <<D0>>), Gate("id", <<D1>>)>>
      [] i = "YError2"  -> <<Gate("id", <<Q>>), Gate("y", <<D0>>),  Gate("id", <<D1>>)>>
      [] OTHER          -> <<>>

\* The second parity check wired from d[0] instead of q.
ParityGate3Miswired == Gate("cx", <<D0, A1>>)

\* qc.cx(q, a[1])
ParityGate3 == Gate("cx", <<Q, A1>>)

\* qc.measure_all(): a barrier, a new register 'meas' of one bit per qubit,
\* and qubit k measured into its bit k.
\* qc.measure([a[0], a[1]], [c[0], c[1]]): the ancillas into c.
MeasureOps(all, ncl) ==
    IF all
    THEN <<Barrier>> \o [k \in 1..NumQubits |-> Measure(k, ncl + k)]
    ELSE <<Measure(A0, 1), Measure(A1, 2)>>

MeasureClbits(all, ncl) == IF all THEN ncl + NumQubits ELSE ncl

(* ------------------------------------------------------------------ *)
(* The simulator: qsim.run(qc, shots=1024).result().get_counts().      *)
(* A shot's state is a set of branches, one per computational-basis    *)
(* state of non-zero amplitude: its bits, its phase as a power of the  *)
(* imaginary unit, and the classical bits written so far.  Every gate  *)
(* but h maps a basis state to one basis state, so branches never      *)
(* interfere.                                                          *)

Flip(b) == 1 - b
Xor(a, b) == (a + b) % 2

InitBranch(ncl) ==
    [bits |-> [k \in 1..NumQubits |-> 0], phase |-> 0, cl |-> [k \in 1..ncl |-> 0]]

ApplyOp(op, br) ==
    CASE op.name = "id"      -> {br}
      [] op.name = "barrier" -> {br}
      [] op.name = "x" -> {[br EXCEPT !.bits[op.q[1]] = Flip(@)]}
      [] op.name = "z" -> {[br EXCEPT !.phase = (@ + 2 * br.bits[op.q[1]]) % 4]}
      [] op.name = "y" ->
            {[br EXCEPT !.bits[op.q[1]] = Flip(@),
                        !.phase = (@ + 1 + 2 * br.bits[op.q[1]]) % 4]}
      [] op.name = "cx" ->
            {[br EXCEPT !.bits[op.q[2]] = Xor(@, br.bits[op.q[1]])]}
      [] op.name = "h" ->
            {[br EXCEPT !.bits[op.q[1]] = 0],
             [br EXCEPT !.bits[op.q[1]] = 1,
                        !.phase = (@ + 2 * br.bits[op.q[1]]) % 4]}
      [] op.name = "measure" ->
            {[br EXCEPT !.cl[op.c[1]] = br.bits[op.q[1]]]}

RECURSIVE RunOps(_, _, _)
RunOps(ops, i, brs) ==
    IF i > Len(ops) THEN brs
    ELSE RunOps(ops, i + 1, UNION {ApplyOp(ops[i], br) : br \in brs})

\* The branches of one shot of circuit c.
Branches(c) == RunOps(c.ops, 1, {InitBranch(c.ncl)})

\* The instructions of c before its first measurement.
RECURSIVE UpToMeasure(_)
UpToMeasure(ops) ==
    IF ops = <<>> \/ Head(ops).name = "measure" THEN <<>>
    ELSE <<Head(ops)>> \o UpToMeasure(Tail(ops))

PreMeasureBranches(c) == RunOps(UpToMeasure(c.ops), 1, {InitBranch(c.ncl)})

Reverse(s) == [k \in 1..Len(s) |-> s[Len(s) + 1 - k]]

\* A key written with classical bit 0 as the leftmost character.
KeyIdentity(cl) == cl

\* get_counts() writes classical bit 0 as the rightmost character.
Key(cl) == Reverse(cl)

Outcomes(c) == {Key(br.cl) : br \in Branches(c)}

\* The histograms n shots over the outcomes K can give.
RECURSIVE Hists(_, _)
Hists(K, n) ==
    IF n = 0 THEN {<<>>}
    ELSE IF K = {} THEN {}
    ELSE UNION { { <<[key |-> k, count |-> m]>> \o h : h \in Hists(K \ {k}, n - m) } :
                 <<k, m>> \in K \X (IF Cardinality(K) = 1 THEN {n} ELSE 1..n) }

(* ------------------------------------------------------------------ *)
(* counts_bit_reversed and the dict it fills.                          *)

HasKey(a, k) == \E j \in 1..Len(a) : a[j].key = k

\* a[k] = v
DictSet(a, k, v) ==
    IF HasKey(a, k)
    THEN [j \in 1..Len(a) |-> IF a[j].key = k THEN [key |-> k, count |-> v] ELSE a[j]]
    ELSE Append(a, [key |-> k, count |-> v])

\* for b in counts: a[''.join([i for i in list(counts.keys())[0]][::-1])] = counts[b]
RECURSIVE CbrLoop(_, _, _)
CbrLoop(cnts, j, a) ==
    IF j > Len(cnts) THEN a
    ELSE CbrLoop(cnts, j + 1, DictSet(a, Reverse(cnts[1].key), cnts[j].count))

counts_bit_reversed(cnts) == CbrLoop(cnts, 1, <<>>)

(* ------------------------------------------------------------------ *)
(* The summary table: the correction each ancilla state calls for (0:  *)
(* none, else the data qubit that gets a sigma_x).                     *)

Correction(anc) ==
    CASE anc = <<0, 0>> -> 0
      [] anc = <<1, 1>> -> Q
      [] anc = <<1, 0>> -> D0
      [] anc = <<0, 1>> -> D1

ApplyCorrection(data, k) == IF k = 0 THEN data ELSE [data EXCEPT ![k] = Flip(@)]

(* ------------------------------------------------------------------ *)
(* State.                                                              *)

NoCircuit == [ncl |-> 0, ops |-> <<>>]

\* The notebook, about to run its first scenario cell.
Init ==
    /\ cell = 1
    /\ tag = Script[1].tag
    /\ measure_all = Script[1].measure_all
    /\ pc = "call"
    /\ qc = NoCircuit
    /\ counts = <<>>
    /\ rcounts = <<>>
    /\ syndrome = <<>>

\* One call of qcirc followed by the cell that decodes it, for any argument.
InitAny ==
    /\ cell = 0
    /\ tag \in ErrorSims \cup OtherTags
    /\ measure_all \in BOOLEAN
    /\ pc = "call"
    /\ qc = NoCircuit
    /\ counts = <<>>
    /\ rcounts = <<>>
    /\ syndrome = <<>>

Bits(n) == [1..n -> {0, 1}]

\* The histograms of at most n entries over the keys K.
RECURSIVE HistsUpTo(_, _)
HistsUpTo(K, n) ==
    IF n = 0 THEN {<<>>}
    ELSE {<<>>} \cup
         UNION { { <<[key |-> k, count |-> m]>> \o h : h \in HistsUpTo(K \ {k}, n - 1) } :
                 <<k, m>> \in K \X (1..MaxCount) }

\* counts_bit_reversed about to be applied to any histogram.
InitCbr ==
    /\ cell = 0
    /\ tag = "NoError"
    /\ measure_all = FALSE
    /\ pc = "simulated"
    /\ qc = NoCircuit
    /\ counts \in HistsUpTo(Bits(KeyLen), MaxKeys)
    /\ rcounts = <<>>
    /\ syndrome = <<>>

(* ------------------------------------------------------------------ *)
(* qcirc, one action per statement.                                    *)

\* q, d, a = QuantumRegister(...); qc = QuantumCircuit(...)
Construct ==
    /\ pc = "call"
    /\ pc' = "l87"
    /\ qc' = NewCircuit(measure_all)
    /\ UNCHANGED <<cell, tag, measure_all, counts, rcounts, syndrome>>

\* qc.cx(q, d[0])
Redundancy1 ==
    /\ pc = "l87"
    /\ pc' = "l88"
    /\ qc' = AppendOps(qc, <<Gate("cx", <<Q, D0>>)>>)
    /\ UNCHANGED <<cell, tag, measure_all, counts, rcounts, syndrome>>

\* qc.cx(d[0], d[1])
Redundancy2 ==
    /\ pc = "l88"
    /\ pc' = "l89"
    /\ qc' = AppendOps(qc, <<Gate("cx", <<D0, D1>>)>>)
    /\ UNCHANGED <<cell, tag, measure_all, counts, rcounts, syndrome>>

\* qc.barrier()
Barrier89 ==
    /\ pc = "l89"
    /\ pc' = "l91"
    /\ qc' = AppendOps(qc, <<Barrier>>)
    /\ UNCHANGED <<cell, tag, measure_all, counts, rcounts, syndrome>>

\* The match with every identity gate left out.
MatchNoIdentity ==
    /\ pc = "l91"
    /\ pc' = "l115"
    /\ qc' = AppendOps(qc, SelectSeq(ErrorGates(tag), LAMBDA g : g.name # "id"))
    /\ UNCHANGED <<cell, tag, measure_all, counts, rcounts, syndrome>>

\* The match with qc.h(q) written for qc.i(q).
MatchHadamard ==
    /\ pc = "l91"
    /\ pc' = "l115"
    /\ qc' = AppendOps(qc, [k \in 1..Len(ErrorGates(tag)) |->
                 IF ErrorGates(tag)[k] = Gate("id", <<Q>>)
                 THEN Gate("h", <<Q>>) ELSE ErrorGates(tag)[k]])
    /\ UNCHANGED <<cell, tag, measure_all, counts, rcounts, syndrome>>

\* The match with the Z cases copied from the X cases: qc.x for qc.z.
MatchZAsX ==
    /\ pc = "l91"
    /\ pc' = "l115"
    /\ qc' = AppendOps(qc, [k \in 1..Len(ErrorGates(tag)) |->
                 IF ErrorGates(tag)[k].name = "z"
                 THEN Gate("x", ErrorGates(tag)[k].q) ELSE ErrorGates(tag)[k]])
    /\ UNCHANGED <<cell, tag, measure_all, counts, rcounts, syndrome>>

\* match i: ...
Match ==
    /\ pc = "l91"
    /\ pc' = "l115"
    /\ qc' = AppendOps(qc, ErrorGates(tag))
    /\ UNCHANGED <<cell, tag, measure_all, counts, rcounts, syndrome>>

\* qc.barrier()
Barrier115 ==
    /\ pc = "l115"
    /\ pc' = "l118"
    /\ qc' = AppendOps(qc, <<Barrier>>)
    /\ UNCHANGED <<cell, tag, measure_all, counts, rcounts, syndrome>>

\* qc.cx(q, a[0])
Parity1 ==
    /\ pc = "l118"
    /\ pc' = "l119"
    /\ qc' = AppendOps(qc, <<Gate("cx", <<Q, A0>>)>>)
    /\ UNCHANGED <<cell, tag, measure_all, counts, rcounts, syndrome>>

\* qc.cx(d[0], a[0])
Parity2 ==
    /\ pc = "l119"
    /\ pc' = "l120"
    /\ qc' = AppendOps(qc, <<Gate("cx", <<D0, A0>>)>>)
    /\ UNCHANGED <<cell, tag, measure_all, counts, rcounts, syndrome>>

\* qc.cx(q, a[1])
Parity3 ==
    /\ pc = "l120"
    /\ pc' = "l121"
    /\ qc' = AppendOps(qc, <<ParityGate3>>)
    /\ UNCHANGED <<cell, tag, measure_all, counts, rcounts, syndrome>>

\* qc.cx(d[1], a[1])
Parity4 ==
    /\ pc = "l121"
    /\ pc' = "l122"
    /\ qc' = AppendOps(qc, <<Gate("cx", <<D1, A1>>)>>)
    /\ UNCHANGED <<cell, tag, measure_all, counts, rcounts, syndrome>>

\* qc.barrier()
Barrier122 ==
    /\ pc = "l122"
    /\ pc' = "l124"
    /\ qc' = AppendOps(qc, <<Barrier>>)
    /\ UNCHANGED <<cell, tag, measure_all, counts, rcounts, syndrome>>

\* qc.measure_all() if measure_all else qc.measure([a[0], a[1]], [c[0], c[1]]); return qc
MeasureAndReturn ==
    /\ pc = "l124"
    /\ pc' = "returned"
    /\ qc' = [ncl |-> MeasureClbits(measure_all, qc.ncl),
              ops |-> qc.ops \o MeasureOps(measure_all, qc.ncl)]
    /\ UNCHANGED <<cell, tag, measure_all, counts, rcounts, syndrome>>

qcirc ==
    \/ Construct
    \/ Redundancy1
    \/ Redundancy2
    \/ Barrier89
    \/ Match
    \/ Barrier115
    \/ Parity1
    \/ Parity2
    \/ Parity3
    \/ Parity4
    \/ Barrier122
    \/ MeasureAndReturn

\* counts = qcirc_sim(qc)
qcirc_sim ==
    /\ pc = "returned"
    /\ \E h \in Hists(Outcomes(qc), SHOTS) : counts' = h
    /\ pc' = "simulated"
    /\ UNCHANGED <<cell, tag, measure_all, qc, rcounts, syndrome>>

\* counts_bit_reversed(counts)
CallCountsBitReversed ==
    /\ pc = "simulated"
    /\ rcounts' = counts_bit_reversed(counts)
    /\ pc' = "reversed"
    /\ UNCHANGED <<cell, tag, measure_all, qc, counts, syndrome>>

\* syndrome = list(...keys())[0]
FirstKey ==
    /\ pc = "reversed"
    /\ rcounts # <<>>
    /\ syndrome' = rcounts[1].key
    /\ pc' = "done"
    /\ UNCHANGED <<cell, tag, measure_all, qc, counts, rcounts>>

\* list(...keys())[0] of an empty dict: IndexError
FirstKeyIndexError ==
    /\ pc = "reversed"
    /\ rcounts = <<>>
    /\ pc' = "error"
    /\ UNCHANGED <<cell, tag, measure_all, qc, counts, rcounts, syndrome>>

\* The next scenario cell: qc = qcirc(ErrorSims.X [, True])
NextCell ==
    /\ pc = "done"
    /\ cell \in 1..(Len(Script) - 1)
    /\ cell' = cell + 1
    /\ tag' = Script[cell + 1].tag
    /\ measure_all' = Script[cell + 1].measure_all
    /\ pc' = "call"
    /\ UNCHANGED <<qc, counts, rcounts, syndrome>>

Next ==
    \/ qcirc
    \/ qcirc_sim
    \/ CallCountsBitReversed
    \/ FirstKey
    \/ NextCell

NextAny ==
    \/ qcirc
    \/ qcirc_sim
    \/ CallCountsBitReversed
    \/ FirstKey

NextCbr ==
    \/ CallCountsBitReversed
    \/ FirstKey
    \/ FirstKeyIndexError

Spec == Init /\ [][Next]_vars
SpecAny == InitAny /\ [][NextAny]_vars
SpecCbr == InitCbr /\ [][NextCbr]_vars

(* ------------------------------------------------------------------ *)
(* What the claims speak of.                                           *)

\* qc is the circuit qcirc returned for the current tag.
Returned == pc \in {"returned", "simulated", "reversed", "done"}
Simulated == pc \in {"simulated", "reversed", "done"}

IsMeasure(op) == op.name = "measure"
MeasuredQubits(c) == {c.ops[k].q[1] : k \in {j \in 1..Len(c.ops) : IsMeasure(c.ops[j])}}
NumMeasures(c) == Len(SelectSeq(c.ops, IsMeasure))

\* The classical bit circuit c measures the qubit into, and that bit's
\* character in a key of the histogram.
ClbitOf(c, qubit) == CHOOSE j \in 1..c.ncl : \E k \in 1..Len(c.ops) : c.ops[k] = Measure(qubit, j)
MeasuredValue(c, key, qubit) == key[Len(key) + 1 - ClbitOf(c, qubit)]
AncillaState(c, key) == <<MeasuredValue(c, key, A0), MeasuredValue(c, key, A1)>>

\* The data qubits q, d[0], d[1] at the end of a shot.
DataStates(c) == {SubSeq(br.bits, 1, 3) : br \in Branches(c)}

\* The instructions of c that are no barrier.
NoBarriers(ops) == SelectSeq(ops, LAMBDA g : g.name # "barrier")

(* ------------------------------------------------------------------ *)
(* C1: with no error and with one bit-flip, the syndrome the cell      *)
(* decodes is 00 for NoError, 11 for XError1, 10 for XError2 and 01    *)
(* for XError3, and the correction it calls for is a sigma_x on the    *)
(* flipped qubit (none for NoError).                                   *)
C1_SingleFlipSyndromes ==
    pc = "done" =>
        /\ tag = "NoError" => syndrome = <<0, 0>> /\ Correction(syndrome) = 0
        /\ tag = "XError1" => syndrome = <<1, 1>> /\ Correction(syndrome) = Q
        /\ tag = "XError2" => syndrome = <<1, 0>> /\ Correction(syndrome) = D0
        /\ tag = "XError3" => syndrome = <<0, 1>> /\ Correction(syndrome) = D1

C1_Witness == pc = "done" /\ tag = "XError2" /\ syndrome = <<1, 0>>

(* C2: two bit-flips decode to the syndrome of the single bit-flip on  *)
(* the third qubit (XError12: 01, XError13: 10, XError23: 11), and the *)
(* correction that syndrome calls for leaves q, d[0], d[1] all flipped *)
(* relative to the encoded word 000.                                   *)
C2_TwoFlipsMiscorrected ==
    pc = "done" /\ tag \in {"XError12", "XError13", "XError23"} =>
        /\ tag = "XError12" => syndrome = <<0, 1>> /\ Correction(syndrome) = D1
        /\ tag = "XError13" => syndrome = <<1, 0>> /\ Correction(syndrome) = D0
        /\ tag = "XError23" => syndrome = <<1, 1>> /\ Correction(syndrome) = Q
        /\ \A data \in DataStates(qc) :
               ApplyCorrection(data, Correction(syndrome)) = <<1, 1, 1>>

C2_Witness ==
    /\ pc = "done" /\ tag = "XError13" /\ syndrome = <<1, 0>>
    /\ DataStates(qc) = {<<1, 0, 1>>}

(* C3: the measured ancilla state a[0]a[1] is 00 for ZError1 and       *)
(* ZError2, 11 for YError1 and 10 for YError2.                         *)
C3_PhaseErrorsUnseen ==
    Simulated =>
        \A j \in 1..Len(counts) :
            /\ tag \in {"ZError1", "ZError2"} => AncillaState(qc, counts[j].key) = <<0, 0>>
            /\ tag = "YError1" => AncillaState(qc, counts[j].key) = <<1, 1>>
            /\ tag = "YError2" => AncillaState(qc, counts[j].key) = <<1, 0>>

C3_Witness ==
    /\ pc = "simulated" /\ tag = "YError2" /\ Len(counts) = 1
    /\ AncillaState(qc, counts[1].key) = <<1, 0>>

(* C4: in every scenario cell the decoded syndrome is the state of the *)
(* two ancilla qubits: two characters, a[0] then a[1].                 *)
C4_SyndromeIsAncillaState ==
    pc = "done" =>
        /\ Len(syndrome) = 2
        /\ syndrome = AncillaState(qc, counts[1].key)

(* C7: no scenario cell's circuit measures a data qubit: every         *)
(* measurement is of a[0] or a[1].                                     *)
C7_OnlyAncillasMeasured == Returned => MeasuredQubits(qc) \subseteq {A0, A1}

(* C5: qcirc called with a tag that is no ErrorSims member ends in an  *)
(* error and returns no circuit.                                       *)
C5_UnsupportedTagRaises == tag \notin ErrorSims => ~Returned

(* C6: every key of the histogram of a circuit qcirc built is as long  *)
(* as the number of classical bits the circuit measures, 2 without     *)
(* measure_all and 5 with it; and a key counts_bit_reversed produces   *)
(* is as long as the key it was made from.                             *)
C6_KeyLengths ==
    /\ Simulated =>
           \A j \in 1..Len(counts) :
               /\ Len(counts[j].key) = NumMeasures(qc)
               /\ Len(counts[j].key) = IF measure_all THEN 5 ELSE 2
    /\ pc \in {"reversed", "done"} =>
           \A j \in 1..Len(rcounts) : Len(rcounts[j].key) = Len(counts[1].key)

C6_Witness ==
    /\ pc = "done" /\ measure_all /\ tag = "XError23"
    /\ Len(counts[1].key) = 5 /\ Len(rcounts[1].key) = 5

(* C8: for every ErrorSims tag and both values of measure_all, the     *)
(* circuit grows in the order encode, error, parity check, measure:    *)
(* cx q->d[0], cx d[0]->d[1], then one single-qubit x, y, z or id on   *)
(* each of q, d[0], d[1] in turn, then cx q->a[0], d[0]->a[0],         *)
(* q->a[1], d[1]->a[1], then measurements only; the returned circuit   *)
(* holds all nine gates and at least one measurement.                  *)
StageOK(k, op) ==
    CASE k = 1 -> op = Gate("cx", <<Q, D0>>)
      [] k = 2 -> op = Gate("cx", <<D0, D1>>)
      [] k \in 3..5 -> op.name \in {"id", "x", "y", "z"} /\ op.q = <<k - 2>>
      [] k = 6 -> op = Gate("cx", <<Q, A0>>)
      [] k = 7 -> op = Gate("cx", <<D0, A0>>)
      [] k = 8 -> op = Gate("cx", <<Q, A1>>)
      [] k = 9 -> op = Gate("cx", <<D1, A1>>)
      [] OTHER -> IsMeasure(op)

C8_StageOrder ==
    tag \in ErrorSims /\ pc # "call" =>
        /\ \A k \in 1..Len(NoBarriers(qc.ops)) : StageOK(k, NoBarriers(qc.ops)[k])
        /\ Returned =>
               /\ NumMeasures(qc) >= 1
               /\ Len(NoBarriers(qc.ops)) = 9 + NumMeasures(qc)

C8_Witness ==
    /\ pc = "returned" /\ tag = "YError2" /\ measure_all
    /\ Len(NoBarriers(qc.ops)) = 14
    /\ NoBarriers(qc.ops)[4] = Gate("y", <<D0>>)

(* C9: counts_bit_reversed returns one entry per input key, keyed by   *)
(* that key reversed and holding that key's count.                     *)
C9_EveryKeyReversed ==
    pc \in {"reversed", "done", "error"} =>
        /\ Len(rcounts) = Len(counts)
        /\ {rcounts[j] : j \in 1..Len(rcounts)} =
               {[key |-> Reverse(counts[j].key), count |-> counts[j].count] :
                   j \in 1..Len(counts)}

(* C10: for every ErrorSims tag and both values of measure_all the     *)
(* state before measurement is one computational-basis state, and the  *)
(* histogram has exactly one key, counted 1024 times.                  *)
C10_Deterministic ==
    tag \in ErrorSims =>
        /\ pc # "call" => Cardinality(PreMeasureBranches(qc)) = 1
        /\ Simulated =>
               /\ Len(counts) = 1
               /\ counts[1].count = 1024
               /\ Outcomes(qc) = {counts[1].key}

C10_Witness ==
    /\ pc = "done" /\ tag = "YError1" /\ measure_all
    /\ counts = <<[key |-> <<1, 1, 0, 0, 1>>, count |-> 1024]>>

====
